---- MODULE Spec2Model ----
(***************************************************************************)
(* Model of the host-function dispatcher generated by #[define_env]        *)
(* (substrate/frame/revive/proc-macro/src/lib.rs): the parsed environment  *)
(* definition, the generated list_syscalls and the generated handle_ecall, *)
(* taken one statement group at a time.                                    *)
(*                                                                         *)
(* Unsigned integers are little-endian byte sequences: a u64 register is a *)
(* sequence of 8 bytes, `x as u32` keeps its first 4 bytes, and a value    *)
(* read from guest memory is the bytes read.                               *)
(***************************************************************************)
EXTENDS Integers, Sequences, FiniteSets, TLC

\* ------------------------------------------------------------------ bounds

\* Largest value of the VM gas register offered to a call.
MaxGas == 4

\* Largest amount a handler body charges on top of the base charge.
MaxBodyCharge == 1

\* Largest number of descriptors of an environment definition in SpecList.
MaxFuncs == 3
MaxItems == 2

\* Largest byte of a value written to a trie in SpecTrie.
MaxByte == 1

\* ------------------------------------------------------- program constants

ALLOWED_REGISTERS == 6

\* Weight of RuntimeCosts::HostFn, in the gas meter's unit.
HostFnCost == 2

\* Size in bytes of the guest memory of the modelled VM instance.
MemSize == 4128

\* ------------------------------------------------------------ byte values

Byte == 0..255

RECURSIVE Pow256(_)
Pow256(i) == IF i = 0 THEN 1 ELSE 256 * Pow256(i - 1)

\* The w-byte little-endian encoding of n (n < 2^24 in this model).
LE(n, w) == [i \in 1..w |-> IF i <= 3 THEN (n \div Pow256(i - 1)) % 256 ELSE 0]

\* The number a byte sequence of at most 2 significant bytes encodes.
Val16(b) == b[1] + 256 * b[2]

\* size_of and align_of of the allowed parameter types.
SizeOf(ty) ==
  CASE ty = "u8" -> 1
    [] ty = "u16" -> 2
    [] ty = "u32" -> 4
    [] ty = "u64" -> 8

\* `x as ty` on an unsigned integer x at least as wide as ty: truncation.
AsType(x, ty) == SubSeq(x, 1, SizeOf(ty))

\* `v.into()` from a narrower unsigned integer to u64: zero extension.
IntoU64(v) == [i \in 1..8 |-> IF i <= Len(v) THEN v[i] ELSE 0]

\* ------------------------------------------------- environment definition

\* Build features a #[cfg] attribute of the environment can name.
Features == {"unstable-hostfn", "riscv"}

NoCfg == "none"

HostFn(name, is_stable, mutating, cfg, param_names, param_types, returns) ==
  [name |-> name, is_stable |-> is_stable, mutating |-> mutating, cfg |-> cfg,
   param_names |-> param_names, param_types |-> param_types, returns |-> returns]

\* The environment the dispatcher is generated from in Spec.
HostFuncs ==
  << HostFn("foo", TRUE, FALSE, NoCfg,
            <<"key_ptr", "val_ptr", "val_len">>, <<"u32", "u32", "u32">>, "Unit"),
     HostFn("set", TRUE, TRUE, NoCfg,
            <<"a", "b", "c", "d">>, <<"u8", "u16", "u32", "u64">>, "ReturnCode"),
     HostFn("bar", FALSE, FALSE, "unstable-hostfn",
            <<"p1", "p2", "p3", "p4", "p5", "p6", "p7">>,
            <<"u32", "u32", "u32", "u32", "u32", "u32", "u32">>, "U32"),
     HostFn("big", TRUE, TRUE, NoCfg,
            <<"p1", "p2", "p3", "p4", "p5", "p6", "p7">>,
            <<"u8", "u64", "u16", "u32", "u8", "u8", "u16">>, "U64"),
     HostFn("now", TRUE, FALSE, "riscv", <<>>, <<>>, "U64") >>

\* Mutant: the match arm is generated without the descriptor's #cfg.
CfgActive_Ignored(f, features) == TRUE

\* #cfg in front of a generated item: the item exists in the build iff the
\* descriptor has no #[cfg] or its feature is enabled.
CfgActive(f, features) == f.cfg = NoCfg \/ f.cfg \in features

\* The match arm of `symbol` in the generated `match __syscall_symbol__`:
\* the index of the first descriptor of the build with that name, 0 for `_`.
MatchArm(d, features, sym) ==
  LET hits == {i \in 1..Len(d) : d[i].name = sym /\ CfgActive(d[i], features)}
  IN  IF hits = {} THEN 0 ELSE CHOOSE i \in hits : \A j \in hits : i <= j

\* ------------------------------------------------------------ list_syscalls

\* Mutant: the filter's flag is inverted.
expand_func_list_Inverted(d, include_unstable) ==
  LET kept == SelectSeq(d, LAMBDA f : ~include_unstable \/ f.is_stable)
  IN  [i \in 1..Len(kept) |-> kept[i].name]

\* expand_func_list: static FUNCS = the names of the descriptors that pass
\* `include_unstable || f.is_stable`, in order. No #cfg is attached.
expand_func_list(d, include_unstable) ==
  LET kept == SelectSeq(d, LAMBDA f : include_unstable \/ f.is_stable)
  IN  [i \in 1..Len(kept) |-> kept[i].name]

\* pub fn list_syscalls(include_unstable: bool) -> &'static [&'static [u8]]
list_syscalls(d, include_unstable) ==
  IF include_unstable THEN expand_func_list(d, TRUE)
  ELSE expand_func_list(d, FALSE)

\* ------------------------------------------------------ argument decoding

AlignUp(n, al) == ((n + al - 1) \div al) * al

\* Offset of field i of the #[repr(C)] struct Args { name: ty, ... }.
RECURSIVE FieldOffset(_, _)
FieldOffset(tys, i) ==
  IF i = 1 THEN 0
  ELSE AlignUp(FieldOffset(tys, i - 1) + SizeOf(tys[i - 1]), SizeOf(tys[i]))

MaxAlign(tys) ==
  CHOOSE m \in {SizeOf(tys[i]) : i \in 1..Len(tys)} :
    \A i \in 1..Len(tys) : SizeOf(tys[i]) <= m

\* Mutant: the struct is laid out and sized without padding to its alignment.
SizeOfArgs_Unpadded(tys) == FieldOffset(tys, Len(tys)) + SizeOf(tys[Len(tys)])

\* ::core::mem::size_of::<Args>()
SizeOfArgs(tys) ==
  AlignUp(FieldOffset(tys, Len(tys)) + SizeOf(tys[Len(tys)]), MaxAlign(tys))

\* let Args { names.. } = args: the fields of the filled buffer, in order.
ArgsFromBuf(tys, buf) ==
  [i \in 1..Len(tys) |->
     SubSeq(buf, FieldOffset(tys, i) + 1, FieldOffset(tys, i) + SizeOf(tys[i]))]

\* Mutant: the register is bound without the `as #ty` cast.
ArgsFromRegs_Uncast(tys, r) == [i \in 1..Len(tys) |-> r[i]]

\* let #name = #reg as #ty, for each parameter.
ArgsFromRegs(tys, r) == [i \in 1..Len(tys) |-> AsType(r[i], tys[i])]

\* let #name = #reg as #ty bindings: no memory access, cannot fail.
DecodeRegs(tys, r) == [ok |-> TRUE, args |-> ArgsFromRegs(tys, r), reads |-> <<>>]

\* Guest memory of the VM instance: the byte at each address.
Mem(addr) == (addr * 7 + 3) % 256

\* memory.read_into_buf(ptr, buf) with ptr: u32 succeeds iff the range lies
\* in guest memory.
ReadInBounds(ptr, len) ==
  ptr[3] = 0 /\ ptr[4] = 0 /\ Val16(ptr) + len <= MemSize

ReadBytes(ptr, len) == [i \in 1..len |-> Mem(Val16(ptr) + i - 1)]

\* Mutant: the result of read_into_buf is dropped, so a failed read hands the
\* zero-initialised Args::default() on.
DecodeStruct_Unchecked(tys, r) ==
  LET ptr == AsType(r[1], "u32")
      len == SizeOfArgs(tys)
      buf == IF ReadInBounds(ptr, len) THEN ReadBytes(ptr, len)
                                       ELSE [i \in 1..len |-> 0]
  IN  [ok |-> TRUE, args |-> ArgsFromBuf(tys, buf), reads |-> << <<ptr, len>> >>]

\* let Args { .. } = { ..; memory.read_into_buf(__a0__ as _, reference)?; args }
\* One read of size_of::<Args>() bytes at __a0__ as u32; `?` leaves on failure.
DecodeStruct(tys, r) ==
  LET ptr == AsType(r[1], "u32")
      len == SizeOfArgs(tys)
  IN  IF ReadInBounds(ptr, len)
        THEN [ok |-> TRUE, args |-> ArgsFromBuf(tys, ReadBytes(ptr, len)),
              reads |-> << <<ptr, len>> >>]
        ELSE [ok |-> FALSE, args |-> <<>>, reads |-> << <<ptr, len>> >>]

\* arg_decoder: what the generated decoding code does with the registers r.
arg_decoder(tys, r) ==
  IF Len(tys) > ALLOWED_REGISTERS THEN DecodeStruct(tys, r) ELSE DecodeRegs(tys, r)

\* ---------------------------------------------------------------- results

\* Result<T, TrapReason> of a host function body (T as bytes, () as <<>>).
BodyOk(v) == [kind |-> "Ok", val |-> v, trap |-> ""]
BodyErr(t) == [kind |-> "Err", val |-> <<>>, trap |-> t]
NoBodyResult == [kind |-> "pending", val |-> <<>>, trap |-> ""]

\* Result<Option<u64>, TrapReason> of handle_ecall.
RetSome(v) == [kind |-> "Ok", some |-> TRUE, val |-> v, trap |-> ""]
RetNone == [kind |-> "Ok", some |-> FALSE, val |-> <<>>, trap |-> ""]
RetErr(t) == [kind |-> "Err", some |-> FALSE, val |-> <<>>, trap |-> t]
NoRet == [kind |-> "pending", some |-> FALSE, val |-> <<>>, trap |-> ""]

\* Mutant: the closure is applied to the whole Result, so a trap of the body
\* comes out as a value.
map_output_OnWholeResult(returns, r) ==
  IF returns = "Unit" THEN RetNone
  ELSE RetSome(IntoU64(r.val))

\* HostFnReturn::map_output applied by .map(#map_output).
map_output(returns, r) ==
  IF r.kind = "Err" THEN RetErr(r.trap)
  ELSE IF returns = "Unit" THEN RetNone
  ELSE RetSome(IntoU64(r.val))

\* Success values a handler body can produce, by return kind.
BodyValues(returns) ==
  CASE returns = "Unit" -> <<<<>>, <<>>>>
    [] returns = "U32" -> <<LE(0, 4), LE(70000, 4)>>
    [] returns = "ReturnCode" -> <<LE(0, 4), LE(3, 4)>>
    [] returns = "U64" -> <<LE(5, 8), <<1, 0, 0, 0, 2, 0, 0, 0>>>>

\* What a handler body does when it runs in the context of a call: the gas it
\* charges and how it ends (its first or second success value, or an error).
Bodies == [charge : 0..MaxBodyCharge, outcome : {"first", "second", "err"}]
NoBody == [charge |-> 0, outcome |-> "none"]

\* The Result the body ends with once its charge went through.
BodyResult(returns, b) ==
  CASE b.outcome = "first" -> BodyOk(BodyValues(returns)[1])
    [] b.outcome = "second" -> BodyOk(BodyValues(returns)[2])
    [] b.outcome = "err" -> BodyErr("HandlerError")

\* ----------------------------------------------------------- gas metering

\* gas_meter_mut().sync_from_executor(memory.gas()): the engine's gas must
\* convert to the meter's unit; a negative register does not.
SyncFromExecutorOk(gas) == gas >= 0

\* self.charge_gas(cost): the meter must hold at least `cost`.
ChargeOk(left, cost) == left >= cost

\* ----------------------------------------------------------- control flow

\* Mutant: the failing step's error is passed over and the call goes on.
EarlyReturn_GoesOn == "charge"

\* A `?` outside the syscall closure (on sync_from_executor, charge_gas and
\* sync_to_executor) returns from handle_ecall.
EarlyReturn == "done"

\* Mutant: a failure of the syscall logic makes the dispatcher look the
\* symbol up again.
ClosureReturn_Retries == "lookup"

\* Mutant: the syscall logic is not wrapped in a closure, so its `?` and Err
\* leave handle_ecall.
ClosureReturn_LeavesCall == "done"

\* A `?` or an Err inside the syscall closure leaves the closure only:
\* handle_ecall goes on with the gas write-back after it.
ClosureReturn == "sync_out"

\* Mutant: the guard statement is emitted in front of the argument decoder.
AfterLookup_GuardFirst(f) == IF f.mutating THEN "guard" ELSE "decode"

\* The closure of a matched arm starts with #arg_decoder.
AfterLookup(f) == "decode"

\* After #arg_decoder comes the wrapped body, whose first statement is the
\* guard if the function is #[mutating].
AfterDecode(f) == IF f.mutating THEN "guard" ELSE "invoke"

\* Mutant: the test of the guard is inverted.
GuardDenies_Inverted(f, read_only) == f.mutating /\ ~read_only

\* if self.ext().is_read_only() { return Err(..) }, present in the body of a
\* #[mutating] function only.
GuardDenies(f, read_only) == f.mutating /\ read_only

\* ------------------------------------------------------ table construction

\* The syntax of a type, as far as the macro looks at it: syn::Type::Path with
\* the idents of its path segments, syn::Type::Tuple with its number of
\* elements, or another kind of type (a reference here).
TyPath(segs) == [kind |-> "path", segs |-> segs, elems |-> 0]
TyTuple(n) == [kind |-> "tuple", segs |-> <<>>, elems |-> n]
TyRef(segs) == [kind |-> "reference", segs |-> segs, elems |-> 0]

\* syn::GenericArgument: a type or something else (a lifetime here).
ArgType(ty) == [kind |-> "type", ty |-> ty]
ArgLifetime == [kind |-> "lifetime", ty |-> TyTuple(0)]

\* syn::ReturnType: Default (nothing written) or Type; `arguments` is the
\* syn::PathArguments of the last path segment: "none" or "angle".
NoOutput == [has |-> FALSE, ty |-> TyTuple(0), arguments |-> "none", args |-> <<>>]
Output(ty, arguments, args) ==
  [has |-> TRUE, ty |-> ty, arguments |-> arguments, args |-> args]
ResultOf(ok, err) ==
  Output(TyPath(<<"Result">>), "angle", <<ArgType(ok), ArgType(err)>>)

\* syn::Attribute: the ident of its path and, for #[cfg(feature = ..)], the
\* feature named.
Attr(ident, arg) == [ident |-> ident, arg |-> arg]

\* syn::ItemFn: a fn item of the module under #[define_env]. special_args is
\* the number of its first two inputs that is_valid_special_arg accepts; the
\* parameters are the inputs after them.
ItemFn(name, attrs, special_args, param_names, param_types, output) ==
  [name |-> name, attrs |-> attrs, special_args |-> special_args,
   param_names |-> param_names, param_types |-> param_types, output |-> output]

\* The attribute loop of HostFn::try_from: doc attributes are dropped, every
\* other attribute must be stable, mutating or cfg, each at most once.
AttrsOk(attrs) ==
  LET kept == SelectSeq(attrs, LAMBDA at : at.ident # "doc")
  IN  /\ \A i \in 1..Len(kept) : kept[i].ident \in {"stable", "mutating", "cfg"}
      /\ \A i, j \in 1..Len(kept) : kept[i].ident = kept[j].ident => i = j

HasAttr(attrs, ident) == \E i \in 1..Len(attrs) : attrs[i].ident = ident

CfgOf(attrs) ==
  IF HasAttr(attrs, "cfg")
    THEN attrs[CHOOSE i \in 1..Len(attrs) : attrs[i].ident = "cfg"].arg
    ELSE NoCfg

\* The second generic argument must be a type that is a path whose first
\* segment is TrapReason.
ErrTypeOk(arg) ==
  /\ arg.kind = "type"
  /\ arg.ty.kind = "path"
  /\ arg.ty.segs[1] = "TrapReason"

\* ok_ty_str: the first path segment of the first generic argument, "()" for
\* the empty tuple, "" where the code returns an error.
OkTyStr(arg) ==
  IF arg.kind # "type" THEN ""
  ELSE IF arg.ty.kind = "path" THEN arg.ty.segs[1]
  ELSE IF arg.ty.kind = "tuple" /\ arg.ty.elems = 0 THEN "()"
  ELSE ""

\* let returns = match ok_ty_str.as_str() { .. }
ReturnsOf(ok_ty_str) ==
  CASE ok_ty_str = "()" -> "Unit"
    [] ok_ty_str = "u32" -> "U32"
    [] ok_ty_str = "u64" -> "U64"
    [] ok_ty_str = "ReturnErrorCode" -> "ReturnCode"
    [] OTHER -> "error"

\* The "process return type" part of HostFn::try_from: the HostFnReturn of the
\* written return type, "error" where the code returns Err.
ProcessReturnType(output) ==
  IF ~output.has THEN "error"
  ELSE IF output.ty.kind # "path" THEN "error"
  ELSE IF output.ty.segs[Len(output.ty.segs)] # "Result" THEN "error"
  ELSE IF output.arguments # "angle" THEN "error"
  ELSE IF Len(output.args) # 2 THEN "error"
  ELSE IF ~ErrTypeOk(output.args[2]) THEN "error"
  ELSE ReturnsOf(OkTyStr(output.args[1]))

\* The ident a parameter type is written with, "" if it is not a single ident.
TypeIdent(ty) ==
  IF ty.kind = "path" /\ Len(ty.segs) = 1 THEN ty.segs[1] ELSE ""

\* HostFn::try_from: the descriptor of a fn item, or an error.
HostFn_try_from(item) ==
  LET returns == ProcessReturnType(item.output)
      ok == AttrsOk(item.attrs) /\ item.special_args = 2 /\ returns # "error"
  IN  [ok |-> ok,
       host_fn |-> HostFn(item.name, HasAttr(item.attrs, "stable"),
                          HasAttr(item.attrs, "mutating"), CfgOf(item.attrs),
                          item.param_names,
                          [i \in 1..Len(item.param_types) |->
                             TypeIdent(item.param_types[i])],
                          returns)]

\* EnvDef::try_from: the descriptors of the module's fn items, in order, or
\* the first error. Nothing compares one item with another.
EnvDef_try_from(its) ==
  LET parsed == [i \in 1..Len(its) |-> HostFn_try_from(its[i])]
  IN  [ok |-> \A i \in 1..Len(its) : parsed[i].ok,
       host_funcs |-> [i \in 1..Len(its) |-> parsed[i].host_fn]]

\* Mutant: the decoder takes any type written as a single ident.
ParamTypeAllowed_AnyIdent(ty) == TypeIdent(ty) # ""

\* arg_decoder at expansion time: a parameter type must be a path that is a
\* single ident, one of u8, u16, u32, u64; anything else panics.
ParamTypeAllowed(ty) == TypeIdent(ty) \in {"u8", "u16", "u32", "u64"}

\* expand_functions calls arg_decoder for every descriptor, whatever its #cfg.
ExpandPanics(its) ==
  \E i \in 1..Len(its) : \E j \in 1..Len(its[i].param_types) :
     ~ParamTypeAllowed(its[i].param_types[j])

\* define_env: the expansion of the module. "ok" with the descriptors the
\* generated code is built from, "compile_error" when EnvDef::try_from returns
\* an error, "panic" when arg_decoder panics; nothing is generated in the last
\* two cases.
define_env(its) ==
  LET env == EnvDef_try_from(its)
  IN  IF ~env.ok THEN [expansion |-> "compile_error", host_funcs |-> <<>>]
      ELSE IF ExpandPanics(its) THEN [expansion |-> "panic", host_funcs |-> <<>>]
      ELSE [expansion |-> "ok", host_funcs |-> env.host_funcs]

\* The fn item a descriptor of this model was parsed from.
OutputOf(returns) ==
  CASE returns = "Unit" -> ResultOf(TyTuple(0), TyPath(<<"TrapReason">>))
    [] returns = "U32" -> ResultOf(TyPath(<<"u32">>), TyPath(<<"TrapReason">>))
    [] returns = "U64" -> ResultOf(TyPath(<<"u64">>), TyPath(<<"TrapReason">>))
    [] returns = "ReturnCode" ->
         ResultOf(TyPath(<<"ReturnErrorCode">>), TyPath(<<"TrapReason">>))

AttrsOf(f) ==
  (IF f.is_stable THEN <<Attr("stable", "")>> ELSE <<>>)
  \o (IF f.mutating THEN <<Attr("mutating", "")>> ELSE <<>>)
  \o (IF f.cfg # NoCfg THEN <<Attr("cfg", f.cfg)>> ELSE <<>>)

ItemOf(f) ==
  ItemFn(f.name, AttrsOf(f), 2, f.param_names,
         [i \in 1..Len(f.param_types) |-> TyPath(<<f.param_types[i]>>)],
         OutputOf(f.returns))

ItemsOf(d) == [i \in 1..Len(d) |-> ItemOf(d[i])]

\* ------------------------------------------------- trie over an overlay

\* Option<T>: None, or Some of a byte sequence.
None == [some |-> FALSE, val |-> <<>>]
Some(v) == [some |-> TRUE, val |-> v]

\* Result<Option<DBValue>, String> of TrieBackendStorage::get.
StorageOk(o) == [kind |-> "Ok", val |-> o]
StorageErr == [kind |-> "Err", val |-> None]

\* DBValue: the byte sequences stored in this model, the empty one included.
Values == {<<>>} \cup {<<b>> : b \in 1..MaxByte}

\* H::Out: the keys, byte sequences of one fixed length.
Keys == {<<0>>, <<1>>}

\* H::hash: a function from values to keys; different values can share a key.
Hash(v) == <<(IF v = <<>> THEN 0 ELSE v[1]) % 2>>

\* hash_db::Prefix = (&[u8], Option<u8>): a slice and an optional last nibble,
\* the latter written as a sequence of at most one byte.
Prefixes == { <<<<>>, <<>>>>, <<<<1>>, <<>>>>, <<<<>>, <<1>>>> }

\* sp_trie::prefixed_key: the prefix slice, the last nibble if there is one,
\* then the key.
prefixed_key(key, prefix) == prefix[1] \o prefix[2] \o key

\* columns::STATE and another column of the same database.
columns_STATE == "STATE"
columns_OTHER == "OTHER"

\* sp_database::Change.
ChangeSet(col, key, value) ==
  [kind |-> "Set", col |-> col, key |-> key, value |-> value]
ChangeRemove(col, key) ==
  [kind |-> "Remove", col |-> col, key |-> key, value |-> <<>>]

\* Database::get(col, key) on a database held as a map from <<col, key>> to
\* the value stored.
Database_get(db, col, key) ==
  IF <<col, key>> \in DOMAIN db THEN Some(db[<<col, key>>]) ELSE None

\* One change applied to the database.
ApplyChange(db, ch) ==
  LET slot == <<ch.col, ch.key>>
  IN  IF ch.kind = "Set"
        THEN [s \in DOMAIN db \cup {slot} |-> IF s = slot THEN ch.value ELSE db[s]]
        ELSE [s \in DOMAIN db \ {slot} |-> db[s]]

\* Database::commit(tx): the changes of the transaction applied in order.
RECURSIVE Database_commit(_, _)
Database_commit(db, tx) ==
  IF tx = <<>> THEN db
  ELSE Database_commit(ApplyChange(db, Head(tx)), Tail(tx))

\* Transaction::new().
Transaction_new == <<>>

\* Mutant: the change is filed under another column.
Transaction_set_OtherColumn(tx, col, key, value) ==
  Append(tx, ChangeSet(columns_OTHER, key, value))

\* Transaction::set(col, key, value): one more Set change with copies of the
\* key and the value.
Transaction_set(tx, col, key, value) == Append(tx, ChangeSet(col, key, value))

\* Transaction::remove(col, key): one more Remove change.
Transaction_remove(tx, col, key) == Append(tx, ChangeRemove(col, key))

\* What a call on the trie did: the value it returned, the transactions it
\* committed, the lines it printed, the warnings it logged, whether it
\* panicked, and the database after it.
Done(ret, txs, printed, warned, panicked, db) ==
  [ret |-> ret, txs |-> txs, printed |-> printed, warned |-> warned,
   panicked |-> panicked, db |-> db]

\* self.persistent_overlay.commit(tx).unwrap() at the end of a mutating call
\* that returns ret (<<>> for the unit value): a failing commit panics and
\* the call returns nothing.
CommitUnwrap(db, tx, printed, ret, commit_fails) ==
  IF commit_fails
    THEN Done(<<>>, <<>>, printed, 0, TRUE, db)
    ELSE Done(ret, <<tx>>, printed, 0, FALSE, Database_commit(db, tx))

\* Mutant: the old storage is asked first and the overlay only if it has
\* nothing.
TrieDbUpdater_get_StorageFirst(db, st, key, prefix) ==
  LET db_key == prefixed_key(key, prefix)
      old == st[<<key, prefix>>]
  IN  IF old.kind = "Ok" /\ old.val.some THEN Done(old.val, <<>>, <<>>, 0, FALSE, db)
      ELSE Done(Database_get(db, columns_STATE, db_key), <<>>, <<>>,
                IF old.kind = "Err" THEN 1 ELSE 0, FALSE, db)

\* TrieDbUpdater::get.
TrieDbUpdater_get(db, st, key, prefix) ==
  LET db_key == prefixed_key(key, prefix)
      over == Database_get(db, columns_STATE, db_key)
      old == st[<<key, prefix>>]
  IN  IF over.some THEN Done(over, <<>>, <<>>, 0, FALSE, db)
      ELSE IF old.kind = "Ok" THEN Done(old.val, <<>>, <<>>, 0, FALSE, db)
      ELSE Done(None, <<>>, <<>>, 1, FALSE, db)

\* TrieDbUpdater::contains.
TrieDbUpdater_contains(db, st, key, prefix) ==
  LET g == TrieDbUpdater_get(db, st, key, prefix)
  IN  Done(g.ret.some, g.txs, g.printed, g.warned, g.panicked, g.db)

\* TrieDbUpdater::insert.
TrieDbUpdater_insert(db, prefix, value, commit_fails) ==
  LET key == Hash(value)
      db_key == prefixed_key(key, prefix)
      tx == <<ChangeSet(columns_STATE, db_key, value)>>
  IN  CommitUnwrap(db, tx, <<>>, key, commit_fails)

\* TrieDbUpdater::emplace.
TrieDbUpdater_emplace(db, k, prefix, value, commit_fails) ==
  LET key == prefixed_key(k, prefix)
      tx == <<ChangeSet(columns_STATE, key, value)>>
  IN  CommitUnwrap(db, tx, <<>>, <<>>, commit_fails)

\* TrieDbUpdater::remove.
TrieDbUpdater_remove(db, k, prefix, commit_fails) ==
  LET key == prefixed_key(k, prefix)
      tx == <<ChangeRemove(columns_STATE, key)>>
  IN  CommitUnwrap(db, tx, <<>>, <<>>, commit_fails)

\* Mutant: an error of the old storage is unwrapped instead of logged.
MutableTrie_get_Unwraps(db, st, key, prefix) ==
  LET db_key == prefixed_key(key, prefix)
      over == Database_get(db, columns_STATE, db_key)
      old == st[<<key, prefix>>]
  IN  IF over.some THEN Done(over, <<>>, <<>>, 0, FALSE, db)
      ELSE IF old.kind = "Ok" THEN Done(old.val, <<>>, <<>>, 0, FALSE, db)
      ELSE Done(None, <<>>, <<>>, 0, TRUE, db)

\* MutableTrie::get.
MutableTrie_get(db, st, key, prefix) ==
  LET db_key == prefixed_key(key, prefix)
      over == Database_get(db, columns_STATE, db_key)
      old == st[<<key, prefix>>]
  IN  IF over.some THEN Done(over, <<>>, <<>>, 0, FALSE, db)
      ELSE IF old.kind = "Ok" THEN Done(old.val, <<>>, <<>>, 0, FALSE, db)
      ELSE Done(None, <<>>, <<>>, 1, FALSE, db)

\* MutableTrie::contains.
MutableTrie_contains(db, st, key, prefix) ==
  LET g == MutableTrie_get(db, st, key, prefix)
  IN  Done(g.ret.some, g.txs, g.printed, g.warned, g.panicked, g.db)

\* MutableTrie::insert.
MutableTrie_insert(db, prefix, value, commit_fails) ==
  LET key == Hash(value)
      prefixed == prefixed_key(key, prefix)
      tx == Transaction_set(Transaction_new, columns_STATE, prefixed, value)
  IN  CommitUnwrap(db, tx, <<<<"[insert] tx", tx>>>>, key, commit_fails)

\* MutableTrie::emplace.
MutableTrie_emplace(db, k, prefix, value, commit_fails) ==
  LET key == prefixed_key(k, prefix)
      tx == Transaction_set(Transaction_new, columns_STATE, key, value)
  IN  CommitUnwrap(db, tx, <<<<"[emplace] tx", tx>>>>, <<>>, commit_fails)

\* Mutant: remove leaves an empty value in place of the entry.
MutableTrie_remove_Tombstone(db, k, prefix, commit_fails) ==
  LET key == prefixed_key(k, prefix)
      tx == Transaction_set(Transaction_new, columns_STATE, key, <<>>)
  IN  CommitUnwrap(db, tx, <<<<"[remove] tx", tx>>>>, <<>>, commit_fails)

\* MutableTrie::remove.
MutableTrie_remove(db, k, prefix, commit_fails) ==
  LET key == prefixed_key(k, prefix)
      tx == Transaction_remove(Transaction_new, columns_STATE, key)
  IN  CommitUnwrap(db, tx, <<<<"[remove] tx", tx>>>>, <<>>, commit_fails)

\* The two implementations of HashDB over a persistent overlay.
Impls == {"TrieDbUpdater", "MutableTrie"}

\* The call `c` made on implementation i, whose overlay is db.
HashDB_call(i, db, st, c) ==
  CASE c.op = "get" ->
         IF i = "TrieDbUpdater" THEN TrieDbUpdater_get(db, st, c.key, c.prefix)
         ELSE MutableTrie_get(db, st, c.key, c.prefix)
    [] c.op = "contains" ->
         IF i = "TrieDbUpdater" THEN TrieDbUpdater_contains(db, st, c.key, c.prefix)
         ELSE MutableTrie_contains(db, st, c.key, c.prefix)
    [] c.op = "insert" ->
         IF i = "TrieDbUpdater"
           THEN TrieDbUpdater_insert(db, c.prefix, c.value, c.commit_fails)
           ELSE MutableTrie_insert(db, c.prefix, c.value, c.commit_fails)
    [] c.op = "emplace" ->
         IF i = "TrieDbUpdater"
           THEN TrieDbUpdater_emplace(db, c.key, c.prefix, c.value, c.commit_fails)
           ELSE MutableTrie_emplace(db, c.key, c.prefix, c.value, c.commit_fails)
    [] c.op = "remove" ->
         IF i = "TrieDbUpdater"
           THEN TrieDbUpdater_remove(db, c.key, c.prefix, c.commit_fails)
           ELSE MutableTrie_remove(db, c.key, c.prefix, c.commit_fails)

\* ------------------------------------------------------------------ state

VARIABLES
  features,        \* the build configuration: the enabled features
  items,           \* the fn items of the module under #[define_env]
  expansion,       \* how define_env ended: "ok", "compile_error" or "panic"
  def,             \* EnvDef.host_funcs: the parsed descriptors, in order
  pc,              \* position of the running handle_ecall ("idle": none)
  symbol,          \* __syscall_symbol__
  regs,            \* the VM's six input registers
  vmGas,           \* the VM's gas register (memory.gas / memory.set_gas)
  gasLeft,         \* the gas meter of the execution context
  readOnly,        \* ext().is_read_only()
  logEnabled,      \* log_enabled!(target: "runtime::revive::strace", Trace)
  executorRejects, \* whether sync_to_executor's conversion fails in this call
  body,            \* what the handler body does in the context of this call
  gasBefore,       \* __gas_left_before__
  a,               \* (__a0__, .., __a5__)
  fn,              \* index of the matched arm, 0 when none
  args,            \* the decoded arguments
  inner,           \* `result` of the wrapped body (line 512)
  result,          \* `result` of the syscall closure (line 551)
  ret,             \* what handle_ecall returned
  debugBuffer,     \* lines appended by append_debug_buffer
  memReads,        \* the read_into_buf calls issued: <<ptr, len>>
  effects,         \* number of handler bodies whose own statements ran
  steps,           \* the steps of handle_ecall executed so far in this call
  gasAtEntry,      \* the VM's gas register when the call was issued
  setGas,          \* number of memory.set_gas calls in this call
  running,         \* the VM instance whose call context the variables hold
  parked,          \* the call contexts of the other VM instances
  storage,         \* the old state storage of the tries (&'a S)
  overlay,         \* the persistent overlay database of each trie
  call,            \* the last HashDB call made on the tries
  outcome          \* what that call did in each trie

vars == <<features, items, expansion, def, pc, symbol, regs, vmGas, gasLeft, readOnly, logEnabled,
          executorRejects, body, gasBefore, a, fn, args, inner, result, ret,
          debugBuffer, memReads, effects, steps, gasAtEntry, setGas,
          running, parked, storage, overlay, call, outcome>>

build == <<features, items, expansion, def>>
vms == <<running, parked>>
trie == <<storage, overlay, call, outcome>>
context == <<symbol, regs, readOnly, logEnabled, executorRejects, body,
             gasAtEntry>>

\* A single VM instance, as in every specification but SpecConc.
OneVm == running = 1 /\ parked = <<>>

\* No trie has been set up, as in every specification but SpecTrie.
NoTrie == storage = <<>> /\ overlay = <<>> /\ call = <<>> /\ outcome = <<>>

\* Register files offered to a call.
ZeroReg == LE(0, 8)
RegFiles ==
  { <<LE(10, 8), LE(20, 8), LE(5, 8), ZeroReg, ZeroReg, ZeroReg>>,
    <<LE(4096, 8), <<1, 2, 3, 4, 5, 6, 7, 8>>, LE(70000, 8),
      <<255, 255, 255, 255, 255, 255, 255, 255>>, <<0, 1, 0, 0, 0, 0, 0, 0>>,
      <<0, 0, 0, 0, 1, 0, 0, 0>>>>,
    <<LE(MemSize - 4, 8), LE(1, 8), LE(2, 8), LE(3, 8), LE(4, 8), LE(5, 8)>>,
    <<<<0, 16, 0, 0, 9, 0, 0, 0>>, LE(300, 8), LE(65536, 8), LE(7, 8),
      ZeroReg, LE(255, 8)>> }

Symbols == {HostFuncs[i].name : i \in 1..Len(HostFuncs)} \cup {"nope"}

Idle ==
  /\ pc = "idle"
  /\ symbol = "" /\ regs = <<>> /\ vmGas = 0 /\ gasLeft = 0
  /\ readOnly = FALSE /\ logEnabled = FALSE /\ executorRejects = FALSE
  /\ body = NoBody
  /\ gasBefore = 0 /\ a = <<>> /\ fn = 0 /\ args = <<>>
  /\ inner = NoBodyResult /\ result = NoRet /\ ret = NoRet
  /\ debugBuffer = <<>> /\ memReads = <<>> /\ effects = 0 /\ steps = <<>>
  /\ gasAtEntry = 0 /\ setGas = 0

Init ==
  /\ features \in SUBSET Features
  /\ items = ItemsOf(HostFuncs)
  /\ expansion = define_env(items).expansion
  /\ def = define_env(items).host_funcs
  /\ Idle
  /\ OneVm
  /\ NoTrie

\* Mutant: the gas meter belongs to the dispatcher and not to the instance's
\* execution context, so the instance taking over finds the meter as the
\* other one left it.
MeterOf_Shared(c, live) == live

\* self.ext.gas_meter_mut(): the gas meter is part of the instance's own
\* execution context.
MeterOf(c, live) == c.gasLeft

\* The VM executor issues an ecall with one of the given register files: a
\* fresh call context.
CallWith(regfiles) ==
  /\ pc = "idle"
  /\ expansion = "ok"
  /\ \E s \in Symbols, r \in regfiles, g \in (-1)..MaxGas, ro \in BOOLEAN,
        lg \in BOOLEAN, rej \in BOOLEAN, b \in Bodies :
       /\ symbol' = s /\ regs' = r /\ vmGas' = g /\ gasAtEntry' = g
       /\ readOnly' = ro /\ logEnabled' = lg /\ executorRejects' = rej
       /\ body' = b
  /\ pc' = "sync_in"
  /\ UNCHANGED <<build, vms, trie, gasLeft, gasBefore, a, fn, args, inner, result, ret,
                 debugBuffer, memReads, effects, steps, setGas>>

Call == CallWith(RegFiles)

\* let __gas_left_before__ = ...sync_from_executor(memory.gas()).map_err(..)?;
GasSyncIn ==
  /\ pc = "sync_in"
  /\ steps' = Append(steps, "GasSyncIn")
  /\ IF SyncFromExecutorOk(vmGas)
       THEN /\ gasLeft' = vmGas
            /\ gasBefore' = vmGas
            /\ pc' = "charge"
            /\ ret' = ret
       ELSE /\ ret' = RetErr("OutOfGas")
            /\ pc' = EarlyReturn
            /\ UNCHANGED <<gasLeft, gasBefore>>
  /\ UNCHANGED <<build, vms, trie, context, vmGas, a, fn, args, inner, result,
                 debugBuffer, memReads, effects, setGas>>

\* self.charge_gas(RuntimeCosts::HostFn).map_err(TrapReason::from)?;
BaseCharge ==
  /\ pc = "charge"
  /\ steps' = Append(steps, "BaseCharge")
  /\ IF ChargeOk(gasLeft, HostFnCost)
       THEN /\ gasLeft' = gasLeft - HostFnCost
            /\ pc' = "read_regs"
            /\ ret' = ret
       ELSE /\ ret' = RetErr("OutOfGas")
            /\ pc' = EarlyReturn
            /\ gasLeft' = gasLeft
  /\ UNCHANGED <<build, vms, trie, context, vmGas, gasBefore, a, fn, args, inner, result,
                 debugBuffer, memReads, effects, setGas>>

\* let (__a0__, .., __a5__) = memory.read_input_regs();
ReadInputRegs ==
  /\ pc = "read_regs"
  /\ a' = regs
  /\ pc' = "lookup"
  /\ steps' = Append(steps, "ReadInputRegs")
  /\ UNCHANGED <<build, vms, trie, context, vmGas, gasLeft, gasBefore, fn, args, inner,
                 result, ret, debugBuffer, memReads, effects, setGas>>

\* match __syscall_symbol__ { #( #impls )* _ => Err(InvalidSyscall) }
Lookup ==
  /\ pc = "lookup"
  /\ steps' = Append(steps, "Lookup")
  /\ fn' = MatchArm(def, features, symbol)
  /\ IF fn' = 0
       THEN /\ result' = RetErr("InvalidSyscall")
            /\ pc' = ClosureReturn
       ELSE /\ result' = result
            /\ pc' = AfterLookup(def[fn'])
  /\ UNCHANGED <<build, vms, trie, context, vmGas, gasLeft, gasBefore, a, args, inner,
                 ret, debugBuffer, memReads, effects, setGas>>

\* #arg_decoder, first in the closure of the matched arm.
Decode ==
  /\ pc = "decode"
  /\ steps' = Append(steps, "Decode")
  /\ LET f == def[fn]
         d == arg_decoder(f.param_types, a)
     IN  /\ memReads' = memReads \o d.reads
         /\ IF d.ok
              THEN /\ args' = d.args
                   /\ pc' = AfterDecode(f)
                   /\ result' = result
              ELSE /\ args' = args
                   /\ result' = RetErr("MemoryAccessFailure")
                   /\ pc' = ClosureReturn
  /\ UNCHANGED <<build, vms, trie, context, vmGas, gasLeft, gasBefore, a, fn, inner, ret,
                 debugBuffer, effects, setGas>>

\* Mutant: the guard stands outside the traced closure, so a denied call
\* leaves without a trace line.
MutationGuard_Untraced ==
  /\ pc = "guard"
  /\ steps' = Append(steps, "MutationGuard")
  /\ IF GuardDenies(def[fn], readOnly)
       THEN /\ inner' = BodyErr("StateChangeDenied")
            /\ pc' = "map_output"
       ELSE /\ inner' = inner
            /\ pc' = "invoke"
  /\ UNCHANGED <<build, vms, trie, context, vmGas, gasLeft, gasBefore, a, fn, args,
                 result, ret, debugBuffer, memReads, effects, setGas>>

\* The statement HostFn::try_from puts in front of a #[mutating] body.
MutationGuard ==
  /\ pc = "guard"
  /\ steps' = Append(steps, "MutationGuard")
  /\ IF GuardDenies(def[fn], readOnly)
       THEN /\ inner' = BodyErr("StateChangeDenied")
            /\ pc' = "trace"
       ELSE /\ inner' = inner
            /\ pc' = "invoke"
  /\ UNCHANGED <<build, vms, trie, context, vmGas, gasLeft, gasBefore, a, fn, args,
                 result, ret, debugBuffer, memReads, effects, setGas>>

\* let result = (|| #body)(): the body's own statements. The body charges
\* some gas and produces a value of its return kind or a trap.
Invoke ==
  /\ pc = "invoke"
  /\ steps' = Append(steps, "Invoke")
  /\ effects' = effects + 1
  /\ IF ChargeOk(gasLeft, body.charge)
       THEN /\ gasLeft' = gasLeft - body.charge
            /\ inner' = BodyResult(def[fn].returns, body)
       ELSE /\ gasLeft' = gasLeft
            /\ inner' = BodyErr("OutOfGas")
  /\ pc' = "trace"
  /\ UNCHANGED <<build, vms, trie, context, vmGas, gasBefore, a, fn, args, result, ret,
                 debugBuffer, memReads, setGas>>

\* The line write!(w, "name(p: {:?}, ..) = {:?}\n", args.., result) forms.
TraceLine(f, as, r) ==
  [name |-> f.name,
   params |-> [i \in 1..Len(f.param_names) |-> <<f.param_names[i], as[i]>>],
   outcome |-> r]

\* Mutant: the outcome of writing the line, not the body's result, is what
\* the traced block evaluates to when tracing is enabled.
Trace_YieldsWriteOutcome ==
  /\ pc = "trace"
  /\ steps' = Append(steps, "Trace")
  /\ debugBuffer' = IF logEnabled
                      THEN Append(debugBuffer, TraceLine(def[fn], args, inner))
                      ELSE debugBuffer
  /\ inner' = IF logEnabled THEN BodyOk(BodyValues(def[fn].returns)[1]) ELSE inner
  /\ pc' = "map_output"
  /\ UNCHANGED <<build, vms, trie, context, vmGas, gasLeft, gasBefore, a, fn, args,
                 result, ret, memReads, effects, setGas>>

\* if log_enabled!(..) { ..; self.ext().append_debug_buffer(msg); } result
Trace ==
  /\ pc = "trace"
  /\ steps' = Append(steps, "Trace")
  /\ debugBuffer' = IF logEnabled
                      THEN Append(debugBuffer, TraceLine(def[fn], args, inner))
                      ELSE debugBuffer
  /\ pc' = "map_output"
  /\ UNCHANGED <<build, vms, trie, context, vmGas, gasLeft, gasBefore, a, fn, args, inner,
                 result, ret, memReads, effects, setGas>>

\* (|| #output { .. })().map(#map_output)
EncodeResult ==
  /\ pc = "map_output"
  /\ steps' = Append(steps, "EncodeResult")
  /\ result' = map_output(def[fn].returns, inner)
  /\ pc' = ClosureReturn
  /\ UNCHANGED <<build, vms, trie, context, vmGas, gasLeft, gasBefore, a, fn, args, inner,
                 ret, debugBuffer, memReads, effects, setGas>>

\* Mutant: a failure of sync_to_executor is dropped and the closure's result
\* is returned.
GasSyncOut_DropsError ==
  /\ pc = "sync_out"
  /\ steps' = Append(steps, "GasSyncOut")
  /\ IF executorRejects
       THEN /\ ret' = result
            /\ pc' = EarlyReturn
            /\ UNCHANGED <<vmGas, setGas>>
       ELSE /\ vmGas' = gasLeft
            /\ setGas' = setGas + 1
            /\ pc' = "return"
            /\ ret' = ret
  /\ UNCHANGED <<build, vms, trie, context, gasLeft, gasBefore, a, fn, args, inner, result,
                 debugBuffer, memReads, effects>>

\* Mutant: the gas at entry is written back, as if nothing was charged.
GasSyncOut_WritesEntryGas ==
  /\ pc = "sync_out"
  /\ steps' = Append(steps, "GasSyncOut")
  /\ IF executorRejects
       THEN /\ ret' = RetErr("OutOfGas")
            /\ pc' = EarlyReturn
            /\ UNCHANGED <<vmGas, setGas>>
       ELSE /\ vmGas' = gasBefore
            /\ setGas' = setGas + 1
            /\ pc' = "return"
            /\ ret' = ret
  /\ UNCHANGED <<build, vms, trie, context, gasLeft, gasBefore, a, fn, args, inner, result,
                 debugBuffer, memReads, effects>>

\* let gas = ...sync_to_executor(__gas_left_before__).map_err(..)?;
\* memory.set_gas(gas.into());
GasSyncOut ==
  /\ pc = "sync_out"
  /\ steps' = Append(steps, "GasSyncOut")
  /\ IF executorRejects
       THEN /\ ret' = RetErr("OutOfGas")
            /\ pc' = EarlyReturn
            /\ UNCHANGED <<vmGas, setGas>>
       ELSE /\ vmGas' = gasLeft
            /\ setGas' = setGas + 1
            /\ pc' = "return"
            /\ ret' = ret
  /\ UNCHANGED <<build, vms, trie, context, gasLeft, gasBefore, a, fn, args, inner, result,
                 debugBuffer, memReads, effects>>

\* result
Return ==
  /\ pc = "return"
  /\ steps' = Append(steps, "Return")
  /\ ret' = result
  /\ pc' = "done"
  /\ UNCHANGED <<build, vms, trie, context, vmGas, gasLeft, gasBefore, a, fn, args, inner,
                 result, debugBuffer, memReads, effects, setGas>>

\* handle_ecall has returned to the VM executor: the call context is dropped.
Exit ==
  /\ pc = "done"
  /\ pc' = "idle"
  /\ symbol' = "" /\ regs' = <<>> /\ vmGas' = 0 /\ gasLeft' = 0
  /\ readOnly' = FALSE /\ logEnabled' = FALSE /\ executorRejects' = FALSE
  /\ body' = NoBody
  /\ gasBefore' = 0 /\ a' = <<>> /\ fn' = 0 /\ args' = <<>>
  /\ inner' = NoBodyResult /\ result' = NoRet /\ ret' = NoRet
  /\ debugBuffer' = <<>> /\ memReads' = <<>> /\ effects' = 0 /\ steps' = <<>>
  /\ gasAtEntry' = 0 /\ setGas' = 0
  /\ UNCHANGED <<build, vms, trie>>

Next ==
  \/ Call
  \/ GasSyncIn
  \/ BaseCharge
  \/ ReadInputRegs
  \/ Lookup
  \/ Decode
  \/ MutationGuard
  \/ Invoke
  \/ Trace
  \/ EncodeResult
  \/ GasSyncOut
  \/ Return
  \/ Exit

Spec == Init /\ [][Next]_vars

\* The statements of handle_ecall, from its first to its `result`.
CallStep ==
  \/ GasSyncIn
  \/ BaseCharge
  \/ ReadInputRegs
  \/ Lookup
  \/ Decode
  \/ MutationGuard
  \/ Invoke
  \/ Trace
  \/ EncodeResult
  \/ GasSyncOut
  \/ Return

\* handle_ecall is straight-line synchronous code: once called it executes
\* its next statement as long as there is one, given that the handler body
\* and the calls into the execution context and the memory return.
\* Calls in SpecFair take one register file whose pointer lets the argument
\* read succeed and one whose pointer makes it fail.
FairRegFiles == {r \in RegFiles : r[2] \in {LE(20, 8), LE(1, 8)}}
CallFair == CallWith(FairRegFiles)

NextFair ==
  \/ CallFair
  \/ CallStep
  \/ Exit

SpecFair == Init /\ [][NextFair]_vars /\ WF_vars(CallStep)

\* ------------------------------------------------- reading a call's record

Count(seq, x) == Cardinality({i \in 1..Len(seq) : seq[i] = x})
Ran(step) == \E i \in 1..Len(steps) : steps[i] = step
Before(s1, s2) ==
  \A i, j \in 1..Len(steps) : (steps[i] = s1 /\ steps[j] = s2) => i < j

Returned == pc = "done"
SyncInPassed == Ran("GasSyncIn") /\ gasAtEntry >= 0
BaseChargePassed == SyncInPassed /\ Ran("BaseCharge") /\ gasAtEntry >= HostFnCost

\* The symbol names no descriptor of the build: never defined, or defined
\* only by descriptors whose build guard is off.
Unregistered(sym) ==
  \A i \in 1..Len(def) :
    def[i].name = sym => (def[i].cfg # NoCfg /\ def[i].cfg \notin features)

\* ------------------------------------------------------------------ C1

\* C1 as stated: whenever a call that passed sync_in has returned, sync_out
\* (sync_to_executor, then the write of the VM gas register) has run exactly
\* once, whatever the outcome, a trap at BaseCharge included.
C1_SyncOutAfterEverySyncIn ==
  (Returned /\ SyncInPassed) => (Count(steps, "GasSyncOut") = 1 /\ setGas = 1)

\* C1 amended: a call that passed sync_in and the base charge calls
\* sync_to_executor exactly once before it returns, whatever Lookup, Decode,
\* MutationGuard and Invoke did, and writes the VM gas register exactly once
\* if that conversion succeeds and not at all if it fails; a call whose base
\* charge fails returns the gas trap without sync_out; no call runs sync_out
\* or writes the gas register twice.
C1_SyncOutOncePastBaseCharge ==
  /\ Count(steps, "GasSyncOut") <= 1 /\ setGas <= Count(steps, "GasSyncOut")
  /\ (Returned /\ BaseChargePassed) =>
       /\ Count(steps, "GasSyncOut") = 1
       /\ setGas = IF executorRejects THEN 0 ELSE 1
  /\ (Returned /\ SyncInPassed /\ ~BaseChargePassed) =>
       /\ ~Ran("GasSyncOut") /\ setGas = 0
       /\ ret = RetErr("OutOfGas")

C1_Witness ==
  /\ Returned /\ BaseChargePassed
  /\ ret = RetErr("MemoryAccessFailure")
  /\ Count(steps, "GasSyncOut") = 1 /\ setGas = 1

\* ------------------------------------------------------------------ C2

\* C2: a call with an unregistered symbol that passed sync_in attempts the
\* base charge exactly once and before the symbol is matched; once charged,
\* the match yields InvalidSyscall with exactly the base charge deducted, no
\* handler body runs and no guest-memory read is issued, and InvalidSyscall is
\* what handle_ecall returns when the gas write-back succeeds.
C2_UnregisteredSymbol ==
  (SyncInPassed /\ Unregistered(symbol)) =>
    /\ effects = 0 /\ memReads = <<>> /\ args = <<>>
    /\ ~Ran("Decode") /\ ~Ran("Invoke") /\ ~Ran("MutationGuard")
    /\ Count(steps, "BaseCharge") <= 1
    /\ Before("BaseCharge", "Lookup")
    /\ Ran("Lookup") =>
         /\ Count(steps, "BaseCharge") = 1
         /\ result = RetErr("InvalidSyscall")
         /\ gasLeft = gasAtEntry - HostFnCost
    /\ Returned =>
         /\ Count(steps, "BaseCharge") = 1
         /\ BaseChargePassed => Ran("Lookup")
         /\ (BaseChargePassed /\ ~executorRejects) =>
              ret = RetErr("InvalidSyscall")

C2_Witness ==
  /\ Returned /\ symbol = "bar" /\ "unstable-hostfn" \notin features
  /\ ret = RetErr("InvalidSyscall")
  /\ vmGas = gasAtEntry - HostFnCost

\* ------------------------------------------------------------------ C3

\* C3: in a call of a mutating descriptor under a read-only context no
\* statement of the handler body runs; once its arguments are decoded the
\* guard makes the body's result StateChangeDenied, which is what the call
\* returns when the gas write-back succeeds. A non-mutating descriptor never
\* meets the guard: under a read-only context its body runs once decoded.
C3_MutationGuard ==
  /\ (fn # 0 /\ def[fn].mutating /\ readOnly) =>
       /\ effects = 0 /\ ~Ran("Invoke")
       /\ Ran("MutationGuard") => inner = BodyErr("StateChangeDenied")
       /\ Ran("EncodeResult") => result = RetErr("StateChangeDenied")
       /\ (Returned /\ args # <<>> /\ ~executorRejects) =>
            ret = RetErr("StateChangeDenied")
  /\ (fn # 0 /\ ~def[fn].mutating) =>
       /\ ~Ran("MutationGuard")
       /\ inner.trap # "StateChangeDenied"
       /\ (Ran("GasSyncOut") /\ result.trap # "MemoryAccessFailure") =>
            (Ran("Invoke") /\ effects = 1)

C3_Witness ==
  /\ Returned /\ symbol = "set" /\ readOnly
  /\ ret = RetErr("StateChangeDenied")
  /\ effects = 0 /\ Ran("MutationGuard")

\* ------------------------------------------------------------------ C4

\* C4: a call whose sync_in fails returns that trap at once: nothing is
\* charged, the input registers are not read, no symbol is looked up, no
\* handler runs, no trace is written and the VM gas register is not written.
C4_SyncInFailureAborts ==
  (Ran("GasSyncIn") /\ gasAtEntry < 0) =>
    /\ steps = <<"GasSyncIn">>
    /\ Returned
    /\ ret = RetErr("OutOfGas")
    /\ gasLeft = 0 /\ a = <<>> /\ fn = 0 /\ args = <<>>
    /\ effects = 0 /\ memReads = <<>> /\ debugBuffer = <<>>
    /\ setGas = 0 /\ vmGas = gasAtEntry
    /\ result = NoRet /\ inner = NoBodyResult

C4_Witness ==
  /\ Returned /\ gasAtEntry < 0 /\ symbol = "foo" /\ logEnabled
  /\ ret = RetErr("OutOfGas")

\* ------------------------------------------------------------------ C5

\* Width in bytes of a parameter type, as the claims state it.
Width(ty) ==
  CASE ty = "u8" -> 8 \div 8
    [] ty = "u16" -> 16 \div 8
    [] ty = "u32" -> 32 \div 8
    [] ty = "u64" -> 64 \div 8

Matched == fn # 0 /\ Ran("Lookup")
InRegisters == Matched /\ Len(def[fn].param_types) <= 6
InMemory == Matched /\ Len(def[fn].param_types) > 6

\* The read the decoder issued lies outside guest memory.
ReadFailed ==
  /\ memReads # <<>>
  /\ ~ReadInBounds(memReads[1][1], memReads[1][2])

\* C5: when the guest-memory read of a descriptor with more than 6 parameters
\* fails, the syscall logic fails with the memory-access trap, which the call
\* returns when the gas write-back succeeds; no statement of the handler body
\* runs, its mutation guard included, and no argument record exists.
C5_FailedReadStopsCall ==
  (InMemory /\ Ran("Decode")) =>
    /\ memReads # <<>>
    /\ ReadFailed =>
         /\ result = RetErr("MemoryAccessFailure")
         /\ args = <<>> /\ inner = NoBodyResult
         /\ effects = 0 /\ debugBuffer = <<>>
         /\ ~Ran("MutationGuard") /\ ~Ran("Invoke") /\ ~Ran("Trace")
         /\ (Returned /\ ~executorRejects) =>
              ret = RetErr("MemoryAccessFailure")

C5_Witness ==
  /\ Returned /\ symbol = "bar" /\ ReadFailed
  /\ ret = RetErr("MemoryAccessFailure")
  /\ effects = 0 /\ args = <<>>

\* ------------------------------------------------------------------ C6

\* C6: for a descriptor with at most 6 parameters decoding issues no
\* guest-memory read, cannot fail, and makes argument i the low bytes of
\* register i, as many as parameter type i is wide.
C6_RegisterArguments ==
  (InRegisters /\ Ran("Decode")) =>
    LET tys == def[fn].param_types
    IN  /\ memReads = <<>>
        /\ result.trap # "MemoryAccessFailure"
        /\ pc \in {"guard", "invoke"} \/ Ran("MutationGuard") \/ Ran("Invoke")
        /\ Len(args) = Len(tys)
        /\ \A i \in 1..Len(tys) :
             /\ Len(args[i]) = Width(tys[i])
             /\ \A k \in 1..Width(tys[i]) : args[i][k] = regs[i][k]

C6_Witness ==
  /\ Ran("Invoke") /\ symbol = "set"
  /\ regs[2] = <<1, 2, 3, 4, 5, 6, 7, 8>>
  /\ args = << <<0>>, <<1, 2>>, <<112, 17, 1, 0>>,
               <<255, 255, 255, 255, 255, 255, 255, 255>> >>
  /\ memReads = <<>>

\* ------------------------------------------------------------------ C7

\* The #[repr(C)] layouts of the two records of HostFuncs: size and offsets.
RecordSize(name) == IF name = "bar" THEN 28 ELSE 32
RecordOffsets(name) ==
  IF name = "bar" THEN <<0, 4, 8, 12, 16, 20, 24>>
  ELSE <<0, 8, 16, 20, 24, 25, 26>>

\* C7: for a descriptor with more than 6 parameters decoding issues exactly
\* one guest-memory read, of the record's size, at the address in register 0
\* (as a u32), and on success the arguments are the record's fields in
\* declaration order: for 7 u32 parameters a read of 28 bytes and the 7
\* consecutive 4-byte fields.
C7_RecordArguments ==
  (InMemory /\ Ran("Decode")) =>
    LET f == def[fn]
        tys == f.param_types
        base == Val16(regs[1])
    IN  /\ Len(memReads) = 1
        /\ memReads[1][1] = SubSeq(regs[1], 1, 4)
        /\ memReads[1][2] = RecordSize(f.name)
        /\ ~ReadFailed =>
             /\ Len(args) = Len(tys)
             /\ \A i \in 1..Len(tys) :
                  /\ Len(args[i]) = Width(tys[i])
                  /\ \A k \in 1..Width(tys[i]) :
                       args[i][k] = Mem(base + RecordOffsets(f.name)[i] + k - 1)

C7_Witness ==
  /\ Ran("Invoke") /\ symbol = "bar" /\ regs[1] = LE(4096, 8)
  /\ memReads = << <<LE(4096, 4), 28>> >>
  /\ Len(args) = 7
  /\ args[1] = <<Mem(4096), Mem(4097), Mem(4098), Mem(4099)>>
  /\ args[7] = <<Mem(4120), Mem(4121), Mem(4122), Mem(4123)>>

\* ------------------------------------------------------------------ C8

StepRank(step) ==
  CASE step = "GasSyncIn" -> 1
    [] step = "BaseCharge" -> 2
    [] step = "ReadInputRegs" -> 3
    [] step = "Lookup" -> 4
    [] step = "Decode" -> 5
    [] step = "MutationGuard" -> 6
    [] step = "Invoke" -> 7
    [] step = "Trace" -> 8
    [] step = "EncodeResult" -> 9
    [] step = "GasSyncOut" -> 10
    [] step = "Return" -> 11

\* C8: the steps a call executes occur in the order GasSyncIn, BaseCharge,
\* Lookup, Decode, MutationGuard, Invoke, Trace, EncodeResult, GasSyncOut,
\* Return, each at most once, and each step's effect is there only once the
\* step ran; Decode completes before the guard is evaluated, so a mutating
\* call under a read-only context whose argument read fails traps with the
\* memory-access failure and not with StateChangeDenied.
C8_StepOrder ==
  /\ \A i, j \in 1..Len(steps) : i < j => StepRank(steps[i]) < StepRank(steps[j])
  /\ (gasLeft # 0 \/ gasBefore # 0) => Ran("GasSyncIn")
  /\ gasLeft < gasBefore => Ran("BaseCharge")
  /\ fn # 0 => Ran("Lookup")
  /\ (args # <<>> \/ memReads # <<>>) => Ran("Decode")
  /\ inner # NoBodyResult => (Ran("Decode") /\ (Ran("MutationGuard") \/ Ran("Invoke")))
  /\ Ran("MutationGuard") => Ran("Decode")
  /\ Ran("Invoke") => Ran("Decode")
  /\ effects # 0 => Ran("Invoke")
  /\ debugBuffer # <<>> => Ran("Trace")
  /\ Ran("Trace") => inner # NoBodyResult
  /\ Ran("EncodeResult") => Ran("Trace")
  /\ setGas # 0 => Ran("GasSyncOut")
  /\ Ran("GasSyncOut") => result # NoRet
  /\ (InMemory /\ def[fn].mutating /\ readOnly /\ ReadFailed) =>
       /\ result = RetErr("MemoryAccessFailure")
       /\ ~Ran("MutationGuard")
       /\ (Returned /\ ~executorRejects) => ret = RetErr("MemoryAccessFailure")

C8_Witness ==
  /\ Returned /\ symbol = "big" /\ readOnly /\ ReadFailed
  /\ ret = RetErr("MemoryAccessFailure")
  /\ steps = <<"GasSyncIn", "BaseCharge", "ReadInputRegs", "Lookup", "Decode",
               "GasSyncOut", "Return">>

\* ------------------------------------------------------------------ C9

InList(sym, list) == \E i \in 1..Len(list) : list[i] = sym

\* C9: under every build configuration the `all` list of list_syscalls holds
\* exactly the symbols dispatch resolves: a looked-up symbol is in `all` iff
\* it matched an arm, a symbol of `all` never gets InvalidSyscall at Lookup,
\* and a symbol whose descriptors are all excluded by their build guard is in
\* neither list.
C9_ListsAreTheDispatchTable ==
  Ran("Lookup") =>
    /\ InList(symbol, list_syscalls(def, TRUE)) <=> fn # 0
    /\ InList(symbol, list_syscalls(def, TRUE)) =>
         result # RetErr("InvalidSyscall")
    /\ Unregistered(symbol) =>
         /\ ~InList(symbol, list_syscalls(def, TRUE))
         /\ ~InList(symbol, list_syscalls(def, FALSE))

\* ------------------------------------------------------------ SpecList

\* Descriptors a developer can add to the environment module in SpecList.
FnPool ==
  { HostFn(n, st, FALSE, c, <<>>, <<>>, "Unit") :
      n \in {"f", "g"}, st \in BOOLEAN, c \in {NoCfg, "riscv"} }

\* The module is compiled: define_env runs on its fn items.
Expand(its) ==
  /\ items' = its
  /\ expansion' = define_env(its).expansion
  /\ def' = define_env(its).host_funcs

InitList ==
  /\ features \in SUBSET Features
  /\ items = <<>>
  /\ expansion = define_env(items).expansion
  /\ def = define_env(items).host_funcs
  /\ Idle
  /\ OneVm
  /\ NoTrie

\* One more fn item in the module under #[define_env]: EnvDef::try_from
\* collects the items' descriptors in order and the lists are generated anew.
DefineFn ==
  /\ pc = "idle"
  /\ Len(items) < MaxFuncs
  /\ \E f \in FnPool : Expand(Append(items, ItemOf(f)))
  /\ UNCHANGED <<features, vms, trie, pc, symbol, regs, vmGas, gasLeft, readOnly,
                 logEnabled, executorRejects, body, gasBefore, a, fn, args, inner,
                 result, ret, debugBuffer, memReads, effects, steps,
                 gasAtEntry, setGas>>

NextList == DefineFn

SpecList == InitList /\ [][NextList]_vars

\* ----------------------------------------------------------------- C10

RECURSIVE IsSubsequence(_, _)
IsSubsequence(s, t) ==
  IF s = <<>> THEN TRUE
  ELSE IF t = <<>> THEN FALSE
  ELSE IF Head(s) = Head(t) THEN IsSubsequence(Tail(s), Tail(t))
  ELSE IsSubsequence(s, Tail(t))

StableIndexes == {i \in 1..Len(def) : def[i].is_stable}

\* The index in def of the k-th descriptor marked stable.
KthStable(k) ==
  CHOOSE i \in StableIndexes :
    Cardinality({j \in StableIndexes : j <= i}) = k

\* C10: stable_only = list_syscalls(false) is a subsequence of
\* all = list_syscalls(true); `all` names every descriptor and stable_only
\* exactly the descriptors marked stable, both in definition order; adding
\* one descriptor not marked stable lengthens `all` by one and leaves
\* stable_only unchanged.
C10_StableIsSubsequenceOfAll ==
  /\ [](LET all == list_syscalls(def, TRUE)
            stable_only == list_syscalls(def, FALSE)
        IN  /\ IsSubsequence(stable_only, all)
            /\ Len(all) = Len(def)
            /\ \A i \in 1..Len(def) : all[i] = def[i].name
            /\ Len(stable_only) = Cardinality(StableIndexes)
            /\ \A k \in 1..Len(stable_only) :
                 stable_only[k] = def[KthStable(k)].name)
  /\ [][(Len(def') = Len(def) + 1 /\ ~def'[Len(def')].is_stable) =>
          /\ Len(list_syscalls(def', TRUE)) = Len(list_syscalls(def, TRUE)) + 1
          /\ list_syscalls(def', FALSE) = list_syscalls(def, FALSE)]_vars

C10_Witness ==
  /\ Len(def) = 3
  /\ def[1].is_stable /\ ~def[2].is_stable /\ ~def[3].is_stable
  /\ def[1].name = "g" /\ def[2].name = "f" /\ def[3].name = "g"
  /\ list_syscalls(def, TRUE) = <<"g", "f", "g">>
  /\ list_syscalls(def, FALSE) = <<"g">>

\* ----------------------------------------------------------- SpecBuild

\* Return types a developer can write on a host function.
TrapReason == TyPath(<<"TrapReason">>)
OutputPool ==
  { ResultOf(TyTuple(0), TrapReason),
    ResultOf(TyPath(<<"ReturnErrorCode">>), TrapReason),
    ResultOf(TyPath(<<"u32">>), TrapReason),
    ResultOf(TyPath(<<"u64">>), TrapReason),
    Output(TyPath(<<"core", "result", "Result">>), "angle",
           <<ArgType(TyPath(<<"u64">>)), ArgType(TrapReason)>>),
    NoOutput,
    Output(TyPath(<<"u32">>), "none", <<>>),
    Output(TyPath(<<"Option">>), "angle", <<ArgType(TyPath(<<"u32">>))>>),
    Output(TyTuple(0), "none", <<>>),
    Output(TyRef(<<"Result">>), "none", <<>>),
    ResultOf(TyPath(<<"u32", "Narrow">>), TrapReason),
    ResultOf(TyPath(<<"u64">>), TyPath(<<"TrapReason", "Inner">>)),
    ResultOf(TyPath(<<"bool">>), TrapReason),
    ResultOf(TyPath(<<"u8">>), TrapReason),
    ResultOf(TyTuple(1), TrapReason),
    ResultOf(TyRef(<<"u32">>), TrapReason),
    ResultOf(TyPath(<<"u32">>), TyPath(<<"DispatchError">>)),
    ResultOf(TyPath(<<"u32">>), TyRef(<<"TrapReason">>)),
    ResultOf(TyPath(<<"u32">>), TyTuple(0)),
    Output(TyPath(<<"Result">>), "none", <<>>),
    Output(TyPath(<<"Result">>), "angle", <<ArgType(TyPath(<<"u32">>))>>),
    Output(TyPath(<<"Result">>), "angle",
           <<ArgType(TyPath(<<"u32">>)), ArgType(TrapReason), ArgType(TrapReason)>>),
    Output(TyPath(<<"Result">>), "angle", <<ArgLifetime, ArgType(TrapReason)>>),
    Output(TyPath(<<"Result">>), "angle",
           <<ArgType(TyPath(<<"u32">>)), ArgLifetime>>) }

\* Parameter lists a developer can write after the two special arguments.
ParamPool ==
  { <<TyPath(<<"bool">>)>>,
    <<TyPath(<<"u8">>), TyPath(<<"bool">>)>>,
    <<TyPath(<<"u32">>), TyPath(<<"u128">>)>>,
    <<TyRef(<<"u8">>)>>,
    <<TyPath(<<"core", "primitive", "u32">>)>>,
    <<TyPath(<<"u8">>), TyPath(<<"u16">>), TyPath(<<"u32">>), TyPath(<<"u64">>)>> }

ParamNames == <<"p1", "p2", "p3", "p4">>

\* The fn items a developer can add to the module in SpecBuild.
ItemPool ==
  { ItemOf(f) : f \in FnPool }
  \cup { ItemFn("h", <<Attr("stable", "")>>, 2, <<>>, <<>>, o) : o \in OutputPool }
  \cup { ItemFn("p", <<Attr("doc", "")>> \o c, 2,
                SubSeq(ParamNames, 1, Len(ps)), ps, OutputOf("U32")) :
           ps \in ParamPool, c \in {<<>>, <<Attr("cfg", "riscv")>>} }
  \cup { ItemFn("f", at, 2, <<>>, <<>>, OutputOf("Unit")) :
           at \in { <<Attr("inline", "")>>,
                    <<Attr("stable", ""), Attr("stable", "")>>,
                    <<Attr("mutating", ""), Attr("stable", "")>> } }
  \cup { ItemFn("g", <<>>, n, <<>>, <<>>, OutputOf("Unit")) : n \in 0..1 }

InitBuild ==
  /\ features \in SUBSET Features
  /\ items = <<>>
  /\ expansion = define_env(items).expansion
  /\ def = define_env(items).host_funcs
  /\ Idle
  /\ OneVm
  /\ NoTrie

\* The developer writes one more fn item into the module and builds it.
AddItem ==
  /\ pc = "idle"
  /\ Len(items) < MaxItems
  /\ \E it \in ItemPool : Expand(Append(items, it))
  /\ UNCHANGED <<features, vms, trie, pc, symbol, regs, vmGas, gasLeft, readOnly,
                 logEnabled, executorRejects, body, gasBefore, a, fn, args, inner,
                 result, ret, debugBuffer, memReads, effects, steps,
                 gasAtEntry, setGas>>

NextBuild == AddItem

SpecBuild == InitBuild /\ [][NextBuild]_vars

\* Two descriptors of the build that are both active and have one symbol.
ActiveCollision ==
  \E i, j \in 1..Len(items) :
     /\ i < j
     /\ items[i].name = items[j].name
     /\ CfgActive(HostFn_try_from(items[i]).host_fn, features)
     /\ CfgActive(HostFn_try_from(items[j]).host_fn, features)

\* C11: table construction rejects every module in which two descriptors that
\* are both active under the build's features have the same symbol, so in a
\* built table no two active descriptors share a symbol.
C11_SymbolCollisionRejected ==
  ActiveCollision => expansion # "ok"

\* The parameter types the dispatcher can decode.
FixedWidthUnsigned == {TyPath(<<"u8">>), TyPath(<<"u16">>), TyPath(<<"u32">>),
                       TyPath(<<"u64">>)}

\* Some fn item of the module, active in the build or not, has a parameter
\* whose type is not written as one of u8, u16, u32, u64.
DisallowedParam ==
  \E i \in 1..Len(items) : \E j \in 1..Len(items[i].param_types) :
     items[i].param_types[j] \notin FixedWidthUnsigned

\* C12: a module in which any host function has a parameter whose type is not
\* u8, u16, u32 or u64 does not build, so there is no handle_ecall to call;
\* every parameter type of a built table is one of the four.
C12_DisallowedParamTypeFailsBuild ==
  /\ DisallowedParam => expansion # "ok" /\ def = <<>> /\ ~ENABLED Call
  /\ expansion = "ok" =>
       \A i \in 1..Len(def) : \A j \in 1..Len(def[i].param_types) :
          def[i].param_types[j] \in {"u8", "u16", "u32", "u64"}

\* A module whose only flaw is a bool parameter of a host function that the
\* build's features exclude: the expansion panics in arg_decoder.
C12_Witness ==
  /\ EnvDef_try_from(items).ok
  /\ expansion = "panic"
  /\ \E i \in 1..Len(items) :
       /\ ~CfgActive(HostFn_try_from(items[i]).host_fn, features)
       /\ \E j \in 1..Len(items[i].param_types) :
            items[i].param_types[j] = TyPath(<<"bool">>)

\* The four return types of the macro's documentation, and the same types
\* with Result written by its full path.
PermittedReturnTypes ==
  LET oks == {TyTuple(0), TyPath(<<"ReturnErrorCode">>), TyPath(<<"u32">>),
              TyPath(<<"u64">>)}
  IN  { Output(TyPath(r), "angle", <<ArgType(ok), ArgType(TrapReason)>>) :
          r \in {<<"Result">>, <<"core", "result", "Result">>}, ok \in oks }

\* C16: table construction accepts a module only if the return type of every
\* host function is one of Result<(), TrapReason>, Result<ReturnErrorCode,
\* TrapReason>, Result<u32, TrapReason>, Result<u64, TrapReason>; a module with
\* any other return type is rejected at build time.
C16_OnlyPermittedReturnTypes ==
  /\ expansion = "ok" =>
       \A i \in 1..Len(items) : items[i].output \in PermittedReturnTypes
  /\ (\E i \in 1..Len(items) : items[i].output \notin PermittedReturnTypes) =>
       expansion = "compile_error"

\* C14: once the matched arm's closure has returned through .map(#map_output),
\* a successful body of return kind Unit gives Ok(None), a successful body of
\* kind U32, U64 or ReturnCode gives Ok(Some(v)) with v the body's value
\* zero-extended to 64 bits, and a trap of the body stays that trap; and
\* handle_ecall returns this result unless sync_to_executor fails.
C14_ResultEncoding ==
  Ran("EncodeResult") =>
    /\ inner.kind = "Ok" /\ def[fn].returns = "Unit" =>
         result.kind = "Ok" /\ ~result.some
    /\ inner.kind = "Ok" /\ def[fn].returns \in {"U32", "U64", "ReturnCode"} =>
         /\ result.kind = "Ok" /\ result.some
         /\ Len(result.val) = 8
         /\ \A i \in 1..8 :
              result.val[i] = IF i <= Len(inner.val) THEN inner.val[i] ELSE 0
    /\ inner.kind = "Err" =>
         result.kind = "Err" /\ result.trap = inner.trap /\ ~result.some
    /\ Returned /\ ~executorRejects => ret = result

\* handle_ecall has returned a u32 body value of three significant bytes as
\* Some of the same number in 64 bits.
C14_Witness ==
  /\ Returned /\ Ran("EncodeResult") /\ ~executorRejects
  /\ def[fn].returns = "U32" /\ inner = BodyOk(LE(70000, 4))
  /\ ret = RetSome(LE(70000, 8))

\* C15: a call that succeeds, to a stable, non-mutating function of three u32
\* parameters whose body charges nothing, with registers (10, 20, 5, 0, 0, 0),
\* hands (10, 20, 5) to the body without reading guest memory, returns
\* Ok(None), and writes to the VM's gas register the gas at entry less one
\* HostFn charge.
C15_ThreeRegisterCall ==
  ( /\ Returned /\ Matched /\ ret.kind = "Ok"
    /\ def[fn].is_stable /\ ~def[fn].mutating
    /\ def[fn].param_types = <<"u32", "u32", "u32">>
    /\ def[fn].returns = "Unit"
    /\ regs = <<LE(10, 8), LE(20, 8), LE(5, 8), ZeroReg, ZeroReg, ZeroReg>>
    /\ body.charge = 0 )
  => /\ args = <<LE(10, 4), LE(20, 4), LE(5, 4)>>
     /\ memReads = <<>>
     /\ effects = 1
     /\ ret = RetNone
     /\ setGas = 1
     /\ vmGas = gasAtEntry - HostFnCost

\* Such a call has returned, made with more gas than the base charge.
C15_Witness ==
  /\ Returned /\ Matched /\ ret = RetNone
  /\ def[fn].name = "foo" /\ def[fn].is_stable /\ ~def[fn].mutating
  /\ def[fn].param_types = <<"u32", "u32", "u32">>
  /\ regs = <<LE(10, 8), LE(20, 8), LE(5, 8), ZeroReg, ZeroReg, ZeroReg>>
  /\ body.charge = 0
  /\ gasAtEntry = MaxGas /\ vmGas = MaxGas - HostFnCost

\* C20: when sync_to_executor fails, handle_ecall returns the gas trap of that
\* failure and not the closure's result, whatever the closure returned and
\* whether or not a handler body ran, and memory.set_gas is not called: the
\* VM's gas register keeps the value it had at entry.
C20_SyncOutFailure ==
  (Returned /\ Ran("GasSyncOut") /\ executorRejects) =>
     /\ ret = RetErr("OutOfGas")
     /\ setGas = 0
     /\ vmGas = gasAtEntry
     /\ ~Ran("Return")

\* sync_to_executor failed after a handler body ran and ended with a value:
\* the value is lost and the trap is returned.
C20_Witness ==
  /\ Returned /\ executorRejects /\ Ran("Invoke") /\ effects = 1
  /\ inner.kind = "Ok" /\ result.kind = "Ok" /\ result.some
  /\ gasLeft < gasAtEntry
  /\ ret = RetErr("OutOfGas") /\ setGas = 0 /\ vmGas = gasAtEntry

\* The arguments of the running call were decoded.
ArgsDecoded == Ran("Decode") /\ ~ReadFailed

InCall == pc \notin {"idle", "done"}

\* The positions of handle_ecall in the order of its text.
PcRank(p) ==
  CASE p = "sync_in" -> 1
    [] p = "charge" -> 2
    [] p = "read_regs" -> 3
    [] p = "lookup" -> 4
    [] p = "decode" -> 5
    [] p = "guard" -> 6
    [] p = "invoke" -> 7
    [] p = "trace" -> 8
    [] p = "map_output" -> 9
    [] p = "sync_out" -> 10
    [] p = "return" -> 11
    [] p = "done" -> 12

\* C18: every call that was entered returns, with Ok(value), Ok(None) or a
\* trap; while it runs there is always a next statement to execute (it never
\* suspends), and every statement moves it to a later position of
\* handle_ecall (no statement is retried and no earlier one is re-entered).
C18_CallTerminates ==
  /\ InCall ~> Returned
  /\ [](Returned => ret.kind \in {"Ok", "Err"})
  /\ [](InCall => ENABLED CallStep)
  /\ [][InCall => (pc' # "idle" /\ PcRank(pc') > PcRank(pc))]_vars

\* A call that ran all of its statements has returned a value.
C18_Witness ==
  /\ Returned /\ ret.kind = "Ok" /\ ret.some
  /\ Len(steps) = 11

\* ------------------------------------------------------------ SpecConc

\* The VM instances of SpecConc; each has its own Runtime (&mut self) and its
\* own memory (&mut M).
VMs == {1, 2}

\* The call context the variables hold: the registers, gas register and
\* memory of one instance, its execution context and the locals of its
\* handle_ecall.
Ctx ==
  [pc |-> pc, symbol |-> symbol, regs |-> regs, vmGas |-> vmGas,
   gasLeft |-> gasLeft, readOnly |-> readOnly, logEnabled |-> logEnabled,
   executorRejects |-> executorRejects, body |-> body, gasBefore |-> gasBefore,
   a |-> a, fn |-> fn, args |-> args, inner |-> inner, result |-> result,
   ret |-> ret, debugBuffer |-> debugBuffer, memReads |-> memReads,
   effects |-> effects, steps |-> steps, gasAtEntry |-> gasAtEntry,
   setGas |-> setGas]

\* The context of an instance that has issued no call.
IdleCtx ==
  [pc |-> "idle", symbol |-> "", regs |-> <<>>, vmGas |-> 0, gasLeft |-> 0,
   readOnly |-> FALSE, logEnabled |-> FALSE, executorRejects |-> FALSE,
   body |-> NoBody, gasBefore |-> 0, a |-> <<>>, fn |-> 0, args |-> <<>>,
   inner |-> NoBodyResult, result |-> NoRet, ret |-> NoRet,
   debugBuffer |-> <<>>, memReads |-> <<>>, effects |-> 0, steps |-> <<>>,
   gasAtEntry |-> 0, setGas |-> 0]

\* The processor turns from the running instance to instance v, between two
\* statements of handle_ecall or outside a call: the running instance's
\* context is set aside as it is and v's is taken up where it was left.
Switch ==
  \E v \in VMs \ {running} :
     LET c == parked[v]
     IN  /\ running' = v
         /\ parked' = [w \in VMs \ {v} |-> IF w = running THEN Ctx ELSE parked[w]]
         /\ pc' = c.pc /\ symbol' = c.symbol /\ regs' = c.regs
         /\ vmGas' = c.vmGas /\ gasLeft' = MeterOf(c, gasLeft)
         /\ readOnly' = c.readOnly /\ logEnabled' = c.logEnabled
         /\ executorRejects' = c.executorRejects /\ body' = c.body
         /\ gasBefore' = c.gasBefore /\ a' = c.a /\ fn' = c.fn
         /\ args' = c.args /\ inner' = c.inner /\ result' = c.result
         /\ ret' = c.ret /\ debugBuffer' = c.debugBuffer
         /\ memReads' = c.memReads /\ effects' = c.effects
         /\ steps' = c.steps /\ gasAtEntry' = c.gasAtEntry
         /\ setGas' = c.setGas
         /\ UNCHANGED <<build, trie>>

\* The calls the instances issue in SpecConc: to the mutating function `set`
\* or to an unknown symbol, with gas for the base charge only or for
\* everything, and a body that charges nothing and ends with a value or
\* charges MaxBodyCharge and ends with an error.
ConcSymbols == {"set", "nope"}
ConcGas == {HostFnCost, MaxGas}
ConcBodies == { [charge |-> 0, outcome |-> "second"],
                [charge |-> MaxBodyCharge, outcome |-> "err"] }

CallConc ==
  /\ pc = "idle"
  /\ expansion = "ok"
  /\ \E s \in ConcSymbols, g \in ConcGas, ro \in BOOLEAN, lg \in BOOLEAN,
        rej \in BOOLEAN, b \in ConcBodies :
       /\ s = "nope" => (~ro /\ b.charge = 0)
       /\ rej => g = MaxGas
       /\ symbol' = s /\ vmGas' = g /\ gasAtEntry' = g
       /\ readOnly' = ro /\ logEnabled' = lg /\ executorRejects' = rej
       /\ body' = b
  /\ regs' = <<LE(10, 8), LE(20, 8), LE(5, 8), ZeroReg, ZeroReg, ZeroReg>>
  /\ pc' = "sync_in"
  /\ UNCHANGED <<build, vms, trie, gasLeft, gasBefore, a, fn, args, inner, result,
                 ret, debugBuffer, memReads, effects, steps, setGas>>

InitConc ==
  /\ features = {}
  /\ items = ItemsOf(HostFuncs)
  /\ expansion = define_env(items).expansion
  /\ def = define_env(items).host_funcs
  /\ Idle
  /\ running = 1
  /\ parked = [v \in VMs \ {1} |-> IdleCtx]
  /\ NoTrie

NextConc ==
  \/ CallConc
  \/ CallStep
  \/ Exit
  \/ Switch

SpecConc == InitConc /\ [][NextConc]_vars

\* Context c holds the same call as context d, tracing apart: the same
\* symbol, registers, gas at entry, read-only flag, executor behaviour and
\* handler behaviour (descriptors and guest memory are the same for all),
\* with the strace target enabled in one and disabled in the other.
SameCallButTracing(c, d) ==
  /\ c.symbol = d.symbol /\ c.regs = d.regs /\ c.gasAtEntry = d.gasAtEntry
  /\ c.readOnly = d.readOnly /\ c.executorRejects = d.executorRejects
  /\ c.body = d.body
  /\ c.logEnabled # d.logEnabled

Contexts == {Ctx} \cup {parked[v] : v \in DOMAIN parked}

\* What the call of context c returns and the gas it leaves in the VM's
\* register when nothing else runs: handle_ecall as a function of the call's
\* inputs.
Alone(c) ==
  LET gas == c.gasAtEntry
      left == gas - HostFnCost
      f == MatchArm(def, features, c.symbol)
      dec == arg_decoder(def[f].param_types, c.regs)
      closure ==
        IF f = 0 THEN [res |-> RetErr("InvalidSyscall"), left |-> left]
        ELSE IF ~dec.ok THEN [res |-> RetErr("MemoryAccessFailure"), left |-> left]
        ELSE IF def[f].mutating /\ c.readOnly
          THEN [res |-> RetErr("StateChangeDenied"), left |-> left]
        ELSE IF left < c.body.charge THEN [res |-> RetErr("OutOfGas"), left |-> left]
        ELSE [res |-> map_output(def[f].returns, BodyResult(def[f].returns, c.body)),
              left |-> left - c.body.charge]
  IN  IF gas < 0 \/ gas < HostFnCost \/ c.executorRejects
        THEN [ret |-> RetErr("OutOfGas"), vmGas |-> gas]
        ELSE [ret |-> closure.res, vmGas |-> closure.left]

\* C17: whatever the interleaving of the instances' calls, a call that has
\* returned has the result and has left the gas of the same call run alone;
\* no step of any instance changes the descriptors, the build or the lists of
\* list_syscalls, and a step of one instance leaves the other contexts alone.
C17_CallsDoNotInterfere ==
  /\ [](\A c \in Contexts :
          c.pc = "done" => (c.ret = Alone(c).ret /\ c.vmGas = Alone(c).vmGas))
  /\ [][/\ build' = build
        /\ \A u \in BOOLEAN : list_syscalls(def', u) = list_syscalls(def, u)
        /\ running' = running => parked' = parked]_vars

\* An instance has run a call to its end while the call of the other
\* instance, already charged, stands in the middle of handle_ecall.
C17_Witness ==
  \E v \in DOMAIN parked :
     /\ pc = "done" /\ Len(steps) = 11 /\ ret.kind = "Ok"
     /\ parked[v].pc = "invoke"
     /\ parked[v].gasLeft < parked[v].gasAtEntry

\* ------------------------------------------------------------ SpecTrie

\* The (key, prefix) pairs the old storage is asked for.
Slots == {<<k, p>> : k \in Keys, p \in Prefixes}

\* Old state storages the tries are started on: one that holds nothing, one
\* that holds a value under key <<1>>, one whose every read fails, and one
\* that fails, holds a value or holds nothing depending on the slot.
Storages ==
  { [s \in Slots |-> StorageOk(None)],
    [s \in Slots |-> IF s[1] = <<1>> THEN StorageOk(Some(<<2>>)) ELSE StorageOk(None)],
    [s \in Slots |-> StorageErr],
    [s \in Slots |-> IF s[1] = <<0>> /\ s[2][1] = <<>> THEN StorageErr
                     ELSE IF s[1] = <<1>> /\ s[2][1] = <<>> THEN StorageOk(Some(<<1>>))
                     ELSE StorageOk(None)] }

\* The database the tries are started on: nothing in STATE, one entry in
\* another column.
InitialDb == [s \in {<<columns_OTHER, <<0>>>>} |-> <<2>>]

NoCall ==
  [op |-> "none", key |-> <<>>, prefix |-> <<<<>>, <<>>>>, value |-> <<>>,
   commit_fails |-> FALSE]
TrieCall(op, key, prefix, value, commit_fails) ==
  [op |-> op, key |-> key, prefix |-> prefix, value |-> value,
   commit_fails |-> commit_fails]

NoOutcome ==
  [ret |-> <<>>, txs |-> <<>>, printed |-> <<>>, warned |-> 0, panicked |-> FALSE]

InitTrie ==
  /\ features = {}
  /\ items = <<>>
  /\ expansion = define_env(items).expansion
  /\ def = define_env(items).host_funcs
  /\ Idle
  /\ OneVm
  /\ storage \in Storages
  /\ overlay = [i \in Impls |-> InitialDb]
  /\ call = NoCall
  /\ outcome = [i \in Impls |-> NoOutcome]

\* A trie whose call panicked is not called again.
Callable == \A i \in Impls : ~outcome[i].panicked

\* The call `c` made on both tries, each over its own database.
Calls(c) == [i \in Impls |-> HashDB_call(i, overlay[i], storage, c)]

\* What the call left behind in each trie, the database apart.
Outcomes(c) ==
  [i \in Impls |->
     [ret |-> Calls(c)[i].ret, txs |-> Calls(c)[i].txs,
      printed |-> Calls(c)[i].printed, warned |-> Calls(c)[i].warned,
      panicked |-> Calls(c)[i].panicked]]

Overlays(c) == [i \in Impls |-> Calls(c)[i].db]

Get ==
  /\ Callable
  /\ \E k \in Keys, p \in Prefixes :
       LET c == TrieCall("get", k, p, <<>>, FALSE)
       IN  call' = c /\ outcome' = Outcomes(c) /\ overlay' = Overlays(c)
  /\ UNCHANGED <<build, vms, context, storage, pc, vmGas, gasLeft, gasBefore,
                 a, fn, args, inner, result, ret, debugBuffer, memReads,
                 effects, steps, setGas>>

Contains ==
  /\ Callable
  /\ \E k \in Keys, p \in Prefixes :
       LET c == TrieCall("contains", k, p, <<>>, FALSE)
       IN  call' = c /\ outcome' = Outcomes(c) /\ overlay' = Overlays(c)
  /\ UNCHANGED <<build, vms, context, storage, pc, vmGas, gasLeft, gasBefore,
                 a, fn, args, inner, result, ret, debugBuffer, memReads,
                 effects, steps, setGas>>

Insert ==
  /\ Callable
  /\ \E p \in Prefixes, v \in Values, cf \in BOOLEAN :
       LET c == TrieCall("insert", <<>>, p, v, cf)
       IN  call' = c /\ outcome' = Outcomes(c) /\ overlay' = Overlays(c)
  /\ UNCHANGED <<build, vms, context, storage, pc, vmGas, gasLeft, gasBefore,
                 a, fn, args, inner, result, ret, debugBuffer, memReads,
                 effects, steps, setGas>>

Emplace ==
  /\ Callable
  /\ \E k \in Keys, p \in Prefixes, v \in Values, cf \in BOOLEAN :
       LET c == TrieCall("emplace", k, p, v, cf)
       IN  call' = c /\ outcome' = Outcomes(c) /\ overlay' = Overlays(c)
  /\ UNCHANGED <<build, vms, context, storage, pc, vmGas, gasLeft, gasBefore,
                 a, fn, args, inner, result, ret, debugBuffer, memReads,
                 effects, steps, setGas>>

Remove ==
  /\ Callable
  /\ \E k \in Keys, p \in Prefixes, cf \in BOOLEAN :
       LET c == TrieCall("remove", k, p, <<>>, cf)
       IN  call' = c /\ outcome' = Outcomes(c) /\ overlay' = Overlays(c)
  /\ UNCHANGED <<build, vms, context, storage, pc, vmGas, gasLeft, gasBefore,
                 a, fn, args, inner, result, ret, debugBuffer, memReads,
                 effects, steps, setGas>>

NextTrie ==
  \/ Get
  \/ Contains
  \/ Insert
  \/ Emplace
  \/ Remove

SpecTrie == InitTrie /\ [][NextTrie]_vars

\* ------------------------------------------------------------------ C21

\* What a trie over the database db lets a reader see under (key, prefix):
\* the overlay's value for the prefixed key when it has one, otherwise the
\* old storage's value, a failed read counting as no value.
Visible(db, key, prefix) ==
  IF <<columns_STATE, prefixed_key(key, prefix)>> \in DOMAIN db
    THEN Some(db[<<columns_STATE, prefixed_key(key, prefix)>>])
  ELSE IF storage[<<key, prefix>>].kind = "Ok" THEN storage[<<key, prefix>>].val
  ELSE None

\* The last call on trie i was an insert that returned k, or an emplace under
\* k, with the prefix p.
Wrote(i, k, p) ==
  /\ ~outcome[i].panicked
  /\ call.prefix = p
  /\ \/ call.op = "insert" /\ outcome[i].ret = k
     \/ call.op = "emplace" /\ call.key = k

\* C21: read-your-writes. Every get(key, prefix) returns the overlay's value
\* for the prefixed key when the overlay has one and the old storage's value
\* otherwise, and contains tells whether that is a value; a get(k, prefix)
\* that follows insert(prefix, value) returning k, or emplace(k, prefix,
\* value), returns value, and contains(k, prefix) is true, in both
\* implementations and whatever the old storage holds.
C21_ReadYourWrites ==
  [][\A i \in Impls :
       /\ call'.op = "get" =>
            outcome'[i].ret = Visible(overlay[i], call'.key, call'.prefix)
       /\ call'.op = "contains" =>
            outcome'[i].ret = Visible(overlay[i], call'.key, call'.prefix).some
       /\ call'.op = "get" /\ Wrote(i, call'.key, call'.prefix) =>
            outcome'[i].ret = Some(call.value)
       /\ call'.op = "contains" /\ Wrote(i, call'.key, call'.prefix) =>
            outcome'[i].ret = TRUE]_vars

\* A get returned the value written to the overlay although the old storage
\* holds another value under the same key and prefix.
C21_Witness ==
  /\ call.op = "get"
  /\ storage[<<call.key, call.prefix>>] = StorageOk(Some(<<2>>))
  /\ \A i \in Impls : outcome[i].ret = Some(<<1>>)
  /\ \A i \in Impls : overlay[i][<<columns_STATE, prefixed_key(call.key, call.prefix)>>] = <<1>>

\* ------------------------------------------------------------------ C22

\* What the old storage alone holds under (key, prefix), as get reports it.
OldValue(key, prefix) ==
  IF storage[<<key, prefix>>].kind = "Ok" THEN storage[<<key, prefix>>].val
  ELSE None

\* The database db without its STATE entry for (key, prefix).
WithoutEntry(db, key, prefix) ==
  [s \in DOMAIN db \ {<<columns_STATE, prefixed_key(key, prefix)>>} |-> db[s]]

\* The last call on trie i was a remove of (k, p) that returned.
Removed(i, k, p) ==
  call.op = "remove" /\ ~outcome[i].panicked /\ call.key = k /\ call.prefix = p

\* C22: remove(key, prefix) deletes the overlay's entry for the prefixed key
\* and nothing else, and leaves the old storage as it is; a get(key, prefix)
\* that directly follows it returns what the old storage holds for the key,
\* and contains is true exactly when the old storage holds a value.
C22_RemoveUncoversOldStorage ==
  [][/\ storage' = storage
     /\ \A i \in Impls :
          /\ call'.op = "remove" /\ ~outcome'[i].panicked =>
               overlay'[i] = WithoutEntry(overlay[i], call'.key, call'.prefix)
          /\ call'.op = "get" /\ Removed(i, call'.key, call'.prefix) =>
               outcome'[i].ret = OldValue(call'.key, call'.prefix)
          /\ call'.op = "contains" /\ Removed(i, call'.key, call'.prefix) =>
               outcome'[i].ret = OldValue(call'.key, call'.prefix).some]_vars

\* A remove returned in both tries: the key it removed is one the old storage
\* holds a value for, the overlay has no entry for it any more and still has
\* its other entries, in STATE and in the other column.
C22_Witness ==
  /\ call.op = "remove"
  /\ storage[<<call.key, call.prefix>>] = StorageOk(Some(<<2>>))
  /\ \A i \in Impls :
       /\ ~outcome[i].panicked
       /\ outcome[i].txs = <<<<ChangeRemove(columns_STATE, prefixed_key(call.key, call.prefix))>>>>
       /\ <<columns_STATE, prefixed_key(call.key, call.prefix)>> \notin DOMAIN overlay[i]
       /\ <<columns_OTHER, <<0>>>> \in DOMAIN overlay[i]
       /\ \E s \in DOMAIN overlay[i] : s[1] = columns_STATE

\* ------------------------------------------------------------------ C23

\* The overlay db has no entry for (key, prefix) and the old storage fails to
\* read it.
ReadFails(db, key, prefix) ==
  /\ <<columns_STATE, prefixed_key(key, prefix)>> \notin DOMAIN db
  /\ storage[<<key, prefix>>] = StorageErr

\* The old storage with nothing under (key, prefix).
AbsentIn(key, prefix) == [storage EXCEPT ![<<key, prefix>>] = StorageOk(None)]

\* C23: when the overlay has no entry and the old storage returns an error,
\* get returns None and contains returns false, which is what they return
\* when the old storage has nothing under the key; the call does not panic,
\* commits nothing and leaves the overlay as it was.
C23_StorageErrorsSwallowed ==
  [][\A i \in Impls :
       call'.op \in {"get", "contains"}
         /\ ReadFails(overlay[i], call'.key, call'.prefix) =>
            /\ outcome'[i].ret = (IF call'.op = "get" THEN None ELSE FALSE)
            /\ outcome'[i].ret =
                 HashDB_call(i, overlay[i],
                             AbsentIn(call'.key, call'.prefix), call').ret
            /\ ~outcome'[i].panicked
            /\ outcome'[i].txs = <<>>
            /\ overlay'[i] = overlay[i]]_vars

\* A get found nothing in an overlay that holds other entries, the old
\* storage failed, and both tries returned None after logging the failure.
C23_Witness ==
  /\ call.op = "get"
  /\ \A i \in Impls :
       /\ ReadFails(overlay[i], call.key, call.prefix)
       /\ \E s \in DOMAIN overlay[i] : s[1] = columns_STATE
       /\ outcome[i].ret = None
       /\ outcome[i].warned = 1
       /\ ~outcome[i].panicked

\* ------------------------------------------------------------------ C24

\* The transactions of a call are one transaction of one change, in STATE.
OneStateChange(txs) ==
  /\ Len(txs) = 1
  /\ Len(txs[1]) = 1
  /\ txs[1][1].col = columns_STATE

\* C24: MutableTrie and TrieDbUpdater are observationally equivalent. Started
\* on the same old storage and equal overlays and given the same calls, they
\* return the same result to every call, panic on the same calls and hold
\* equal overlays after every call; every insert, emplace and remove that
\* returns has committed exactly one transaction of one change to the STATE
\* column, the same one in both, and get and contains commit none.
C24_SameObservations ==
  /\ outcome["MutableTrie"].ret = outcome["TrieDbUpdater"].ret
  /\ outcome["MutableTrie"].panicked = outcome["TrieDbUpdater"].panicked
  /\ outcome["MutableTrie"].txs = outcome["TrieDbUpdater"].txs
  /\ overlay["MutableTrie"] = overlay["TrieDbUpdater"]
  /\ \A i \in Impls :
       /\ call.op \in {"insert", "emplace", "remove"} /\ ~outcome[i].panicked =>
            OneStateChange(outcome[i].txs)
       /\ call.op \in {"get", "contains"} => outcome[i].txs = <<>>

\* Both tries returned the same key from an insert that replaced nothing they
\* hold: their overlays are equal, with two entries in STATE, though only
\* MutableTrie printed its transaction.
C24_Witness ==
  /\ call.op = "insert"
  /\ outcome["MutableTrie"].ret = Hash(call.value)
  /\ outcome["TrieDbUpdater"].ret = Hash(call.value)
  /\ overlay["MutableTrie"] = overlay["TrieDbUpdater"]
  /\ Cardinality({s \in DOMAIN overlay["MutableTrie"] : s[1] = columns_STATE}) = 2
  /\ outcome["MutableTrie"].printed # <<>>
  /\ outcome["TrieDbUpdater"].printed = <<>>

====
